---- MODULE Spec2Model ----
(***************************************************************************)
(* Verification development of the secure-passkey-auth front-end: the      *)
(* pages Choose2FA, Verify2FA, Setup2FA, Settings and Dashboard, the       *)
(* router of App.tsx and the three backend tables with their row-level     *)
(* security policies.                                                      *)
(*                                                                         *)
(* One visitor (a browser tab) walks the pages.  Every supabase call is    *)
(* executed against the tables when it is issued and its response is kept  *)
(* in `pending` until the awaiting handler resumes, so that other sessions *)
(* (the Other_* actions) interleave between a request and its response.    *)
(***************************************************************************)
EXTENDS Integers, Sequences, FiniteSets, TLC

(* ------------------------------ bounds -------------------------------- *)

\* row ids minted by gen_random_uuid() are 1..MaxRows
MaxRows == 2
\* the clock runs over the 30-second periods 0..MaxTime
MaxTime == 1
\* loadSettings instances that may still be in flight when the next
\* operation of the Settings page starts
MaxLoads == 1
\* the 30-second periods 0..MaxPeriod the instants of the TOTP validation
\* are drawn from
MaxPeriod == 3

Accounts == {1, 2}
Secrets == {1, 2}
RawIds == {1, 2}
Labels == {<<" ">>, <<" ", "b">>}
\* the account whose password the visitor knows
Visitor == 1
None == 0

(* --------------------------- TOTP (otpauth) --------------------------- *)

\* new OTPAuth.TOTP({... digits: 6, period: 30 ...}), validate({window: 1})
digits == 6
period == 30
window == 1

\* delta === null
NoMatch == -99

\* the HMAC-based one-time password of a secret at a counter: an arithmetic
\* stand-in for the HMAC, truncated to `digits` decimal digits as HOTP is
HOTP(s, c) == (s * 7919 + c * 104729) % (10 ^ digits)

\* the counter the library derives from a timestamp in seconds
Counter(seconds) == seconds \div period

\* seconds at the start of clock period p
Timestamp(p) == p * period

\* token strings: a length and a numeric value
Token(len, val) == [len |-> len, val |-> val]
\* totp.generate({ timestamp }) at an instant given in seconds
GenerateAt(s, seconds) == Token(digits, HOTP(s, Counter(seconds)))
Generate(s, p) == GenerateAt(s, Timestamp(p))

RECURSIVE FirstDelta(_, _, _, _)
FirstDelta(s, tok, c, d) ==
  IF d > window THEN NoMatch
  ELSE IF HOTP(s, c + d) = tok.val THEN d
  ELSE FirstDelta(s, tok, c, d + 1)

\* validate that compares with the code of the current period only
ValidateAtCurrentOnly(s, tok, seconds) ==
  IF tok.len = digits /\ HOTP(s, Counter(seconds)) = tok.val THEN 0 ELSE NoMatch

\* totp.validate({ token, window: 1 }) at an instant given in seconds:
\* null (NoMatch) or the matching delta
ValidateAt(s, tok, seconds) ==
  IF tok.len # digits THEN NoMatch
  ELSE FirstDelta(s, tok, Counter(seconds), -window)

\* ... at the start of clock period p
Validate(s, tok, p) == ValidateAt(s, tok, Timestamp(p))

\* instants in seconds: the first and the last second of each period
Instants == {Timestamp(p) + o : p \in 0..MaxPeriod, o \in {0, period - 1}}

Tokens ==
  {Token(digits, 0), Token(5, HOTP(1, 0))}
    \cup {Generate(s, p) : s \in Secrets, p \in 0..MaxTime}

\* String.prototype.trim on a label of one-character strings
RECURSIVE TrimStart(_)
TrimStart(l) == IF l # <<>> /\ Head(l) = " " THEN TrimStart(Tail(l)) ELSE l
RECURSIVE TrimEnd(_)
TrimEnd(l) ==
  IF l # <<>> /\ l[Len(l)] = " " THEN TrimEnd(SubSeq(l, 1, Len(l) - 1)) ELSE l
Trim(l) == TrimEnd(TrimStart(l))

(* ------------------------- the backend tables ------------------------- *)

NoError == "ok"
NetworkError == "Failed to fetch"
NoRowsError == "JSON object requested, multiple (or no) rows returned"
UniqueError == "duplicate key value violates unique constraint"
RlsError == "new row violates row-level security policy"

\* the data of a .single() select on user_2fa: null, or the row's columns
NoRow == [secret |-> None, enabled |-> FALSE, present |-> FALSE]
Data2FA(r) == [secret |-> r.secret, enabled |-> r.enabled, present |-> TRUE]

Row2FA(a, s, e) == [user_id |-> a, secret |-> s, enabled |-> e]

Btoa(raw) == raw + 100
Atob(text) == text - 100

PasskeyRow(id, a, raw, label) ==
  [id |-> id, user_id |-> a, credential_id |-> Btoa(raw), device_name |-> label]

VARIABLES
  user_2fa,       \* public.user_2fa: a set of rows
  user_passkeys,  \* public.user_passkeys: a set of rows
  nextId,         \* the next id gen_random_uuid() mints
  now,            \* the current 30-second period
  session,        \* the identity provider's session of the visitor (auth.uid())
  authenticated,  \* the flow controller has reached Authenticated
  route,          \* the route shown
  userId,         \* location.state?.userId of the page shown
  loading,        \* the page's loading flag
  hasPasskeys,    \* Choose2FA
  secret,         \* Setup2FA
  twoFAEnabled,   \* Settings
  passkeys,       \* Settings: the displayed list
  pending,        \* the calls awaited by the page's handlers
  toast           \* the notification emitted by the last step

store == <<user_2fa, user_passkeys, nextId>>
vars == <<user_2fa, user_passkeys, nextId, now, session, authenticated, route,
          userId, loading, hasPasskeys, secret, twoFAEnabled, passkeys,
          pending, toast>>

(* ------------------------------ routes -------------------------------- *)

LoginRoute == "/auth/login"
SetupRoute == "/auth/setup-2fa"
ChooseRoute == "/auth/choose-2fa"
VerifyRoute == "/auth/verify-2fa"
DashboardRoute == "/dashboard"
SettingsRoute == "/dashboard/settings"
RootRoute == "/"

Routes == {RootRoute, LoginRoute, SetupRoute, ChooseRoute, VerifyRoute,
           DashboardRoute, SettingsRoute}
ProtectedRoutes == {DashboardRoute, SettingsRoute}

(* --------------------------- notifications ---------------------------- *)

NoToast == [kind |-> "none", text |-> "", detail |-> ""]
Success(text) == [kind |-> "success", text |-> text, detail |-> ""]
Failure(text, detail) == [kind |-> "error", text |-> text, detail |-> detail]

(* ------------------- store calls and their responses ------------------ *)

\* a call in flight: the call, what it captured and the response it will get
Call ==
  [op |-> "", error |-> NoError, rows |-> {}, row2fa |-> NoRow,
   token |-> Token(0, 0), label |-> <<>>, flag |-> FALSE, outcome |-> "",
   raw |-> None]

\* USING (auth.uid() = user_id) ON public.user_passkeys FOR SELECT
VisiblePasskeys(uid, a) ==
  {r \in user_passkeys : r.user_id = a /\ r.user_id = uid}

\* .from('user_passkeys').select(...).eq('user_id', a): every response
SelectPasskeys(uid, a) ==
  {[error |-> NetworkError, rows |-> {}],
   [error |-> NoError, rows |-> VisiblePasskeys(uid, a)]}

\* ... .limit(1): any one of the visible rows
SelectPasskeysLimit1(uid, a) ==
  {[error |-> NetworkError, rows |-> {}]}
    \cup (IF VisiblePasskeys(uid, a) = {}
           THEN {[error |-> NoError, rows |-> {}]}
           ELSE {[error |-> NoError, rows |-> {r}] : r \in VisiblePasskeys(uid, a)})

\* USING (auth.uid() = user_id) ON public.user_2fa FOR SELECT
Visible2FA(uid, a) == {r \in user_2fa : r.user_id = a /\ r.user_id = uid}

\* .from('user_2fa').select(...).eq('user_id', a).single(): every response
Select2FA(uid, a) ==
  {[error |-> NetworkError, row2fa |-> NoRow]}
    \cup (IF Cardinality(Visible2FA(uid, a)) = 1
           THEN {[error |-> NoError, row2fa |-> Data2FA(r)] : r \in Visible2FA(uid, a)}
           ELSE {[error |-> NoRowsError, row2fa |-> NoRow]})

\* the insert into a user_2fa whose user_id is not UNIQUE
Insert2FANotUnique(uid, a, s) ==
  IF a \notin Accounts \/ uid # a
  THEN [error |-> RlsError, table |-> user_2fa]
  ELSE [error |-> NoError, table |-> user_2fa \cup {Row2FA(a, s, TRUE)}]

\* .from('user_2fa').insert({user_id, secret, enabled: true}) under
\* WITH CHECK (auth.uid() = user_id) and user_id ... NOT NULL UNIQUE
Insert2FA(uid, a, s) ==
  IF a \notin Accounts \/ uid # a
  THEN [error |-> RlsError, table |-> user_2fa]
  ELSE IF \E r \in user_2fa : r.user_id = a
  THEN [error |-> UniqueError, table |-> user_2fa]
  ELSE [error |-> NoError, table |-> user_2fa \cup {Row2FA(a, s, TRUE)}]

\* .from('user_2fa').update({enabled}).eq('user_id', a) under
\* USING (auth.uid() = user_id): no error when no row matches
Update2FA(uid, a, e) ==
  [error |-> NoError,
   table |-> {IF r.user_id = a /\ r.user_id = uid THEN [r EXCEPT !.enabled = e] ELSE r :
                r \in user_2fa}]

\* the insert with device_name: passkeyName.trim()
InsertPasskeyTrimmed(uid, a, raw, label) ==
  IF a \notin Accounts \/ uid # a
  THEN [error |-> RlsError, table |-> user_passkeys]
  ELSE IF \E r \in user_passkeys : r.credential_id = Btoa(raw)
  THEN [error |-> UniqueError, table |-> user_passkeys]
  ELSE [error |-> NoError,
        table |-> user_passkeys \cup {PasskeyRow(nextId, a, raw, Trim(label))}]

\* .from('user_passkeys').insert({user_id, credential_id, public_key,
\* device_name}) under WITH CHECK (auth.uid() = user_id) and
\* credential_id TEXT NOT NULL UNIQUE
InsertPasskey(uid, a, raw, label) ==
  IF a \notin Accounts \/ uid # a
  THEN [error |-> RlsError, table |-> user_passkeys]
  ELSE IF \E r \in user_passkeys : r.credential_id = Btoa(raw)
  THEN [error |-> UniqueError, table |-> user_passkeys]
  ELSE [error |-> NoError,
        table |-> user_passkeys \cup {PasskeyRow(nextId, a, raw, label)}]

\* the delete without the policy "Users can delete own passkeys"
DeletePasskeyNoPolicy(uid, id) ==
  [error |-> NoError, table |-> {r \in user_passkeys : r.id # id}]

\* .from('user_passkeys').delete().eq('id', id) under
\* USING (auth.uid() = user_id): no error when no row matches
DeletePasskey(uid, id) ==
  [error |-> NoError,
   table |-> {r \in user_passkeys : ~(r.id = id /\ r.user_id = uid)}]

\* a write that never reached the backend
Unreached(table) == [error |-> NetworkError, table |-> table]

(* ------------------------ router and page mounts ---------------------- *)

\* <ProtectedRoute>: the children for a visitor the provider knows,
\* <Navigate to="/auth/login"> for any other
ProtectedRoute(r, sess) == IF sess = None THEN LoginRoute ELSE r

\* the page finally shown for a requested route and location state.
\* Setup2FA without a userId navigates to /auth/login in its mount effect.
\* Choose2FA without a userId calls navigate('/auth/login') while rendering
\* and returns null: the router ignores a navigate() made during the first
\* render of a component, so the route stays, with nothing rendered.
Resolve(r, st, sess) ==
  LET r1 == IF r = RootRoute THEN DashboardRoute ELSE r
      r2 == IF r1 \in ProtectedRoutes THEN ProtectedRoute(r1, sess) ELSE r1
  IN IF r2 = SetupRoute /\ st = None THEN LoginRoute ELSE r2

\* Choose2FA.checkPasskeys as issued by the mount effect
IssueCheckPasskeys(sess, a) ==
  {[Call EXCEPT !.op = "checkPasskeys", !.error = x.error, !.rows = x.rows] :
     x \in SelectPasskeysLimit1(sess, a)}

\* Settings.loadSettings up to its first await
IssueLoadSettings(sess) ==
  {[Call EXCEPT !.op = "load.2fa", !.error = x.error, !.row2fa = x.row2fa] :
     x \in Select2FA(sess, sess)}

Loads(P) == {c \in P : c.op \in {"load.2fa", "load.passkeys"}}

\* mounting the page of route r with location state st: the initial
\* useState values and the mount effects
Enter(r, st, sess) ==
  LET fr == Resolve(r, st, sess) IN
  /\ route' = fr
  /\ userId' = IF fr \in {ChooseRoute, VerifyRoute, SetupRoute} THEN st ELSE None
  /\ loading' = FALSE
  /\ hasPasskeys' = FALSE
  /\ twoFAEnabled' = TRUE
  /\ passkeys' = {}
  /\ IF fr = SetupRoute THEN secret' \in Secrets ELSE secret' = None
  /\ IF fr = ChooseRoute /\ st # None
     THEN \E c \in IssueCheckPasskeys(sess, st) : pending' = {c}
     ELSE IF fr = SettingsRoute
     THEN \E c \in IssueLoadSettings(sess) : pending' = {c}
     ELSE pending' = {}

Init ==
  /\ user_2fa = {}
  /\ user_passkeys = {}
  /\ nextId = 1
  /\ now = 0
  /\ session = None
  /\ authenticated = FALSE
  /\ route = LoginRoute
  /\ userId = None
  /\ loading = FALSE
  /\ hasPasskeys = FALSE
  /\ secret = None
  /\ twoFAEnabled = TRUE
  /\ passkeys = {}
  /\ pending = {}
  /\ toast = NoToast

(* ------------------------- clock and address bar ---------------------- *)

Tick ==
  /\ now < MaxTime
  /\ now' = now + 1
  /\ toast' = NoToast
  /\ UNCHANGED <<store, session, authenticated, route, userId, loading,
                 hasPasskeys, secret, twoFAEnabled, passkeys, pending>>

\* the visitor loads a route from the address bar: a fresh document, no
\* location state, nothing of the previous page awaited any more
GoTo(r) ==
  /\ Enter(r, None, session)
  /\ toast' = NoToast
  /\ UNCHANGED <<store, now, session, authenticated>>

(* ------------------------- Login, Signup, signOut --------------------- *)

\* the identity provider accepts email and password: it issues the session
\* and the flow goes to the method choice carrying the account id
Login_success(a) ==
  /\ route = LoginRoute
  /\ a = Visitor
  /\ session' = a
  /\ authenticated' = FALSE
  /\ Enter(ChooseRoute, a, a)
  /\ toast' = NoToast
  /\ UNCHANGED <<store, now>>

Login_failure ==
  /\ route = LoginRoute
  /\ toast' = Failure("Invalid login credentials", "")
  /\ UNCHANGED <<store, now, session, authenticated, route, userId, loading,
                 hasPasskeys, secret, twoFAEnabled, passkeys, pending>>

\* a new account is created: the flow goes to the 2FA setup
Signup_success(a) ==
  /\ route = LoginRoute
  /\ a = Visitor
  /\ session' = a
  /\ authenticated' = FALSE
  /\ Enter(SetupRoute, a, a)
  /\ toast' = NoToast
  /\ UNCHANGED <<store, now>>

\* Dashboard: onClick={signOut}
Dashboard_signOut ==
  /\ route = DashboardRoute
  /\ session' = None
  /\ authenticated' = FALSE
  /\ Enter(DashboardRoute, None, None)
  /\ toast' = NoToast
  /\ UNCHANGED <<store, now>>

\* Dashboard: onClick={() => navigate('/dashboard/settings')}
Dashboard_openSettings ==
  /\ route = DashboardRoute
  /\ Enter(SettingsRoute, None, session)
  /\ toast' = NoToast
  /\ UNCHANGED <<store, now, session, authenticated>>

(* ------------------------------ Choose2FA ----------------------------- *)

\* the rest of checkPasskeys once its query has returned
CheckPasskeysResult(c, has) ==
  IF c.error = NoError /\ c.rows # {} THEN TRUE ELSE has

Choose2FA_checkPasskeys(c) ==
  /\ route = ChooseRoute
  /\ c \in pending /\ c.op = "checkPasskeys"
  /\ hasPasskeys' = CheckPasskeysResult(c, hasPasskeys)
  /\ pending' = pending \ {c}
  /\ toast' = NoToast
  /\ UNCHANGED <<store, now, session, authenticated, route, userId, loading,
                 secret, twoFAEnabled, passkeys>>

\* the buttons are rendered when there is a userId, the passkey button
\* under {hasPasskeys && ...}
CodeOptionOffered == route = ChooseRoute /\ userId # None
PasskeyOptionOffered == CodeOptionOffered /\ hasPasskeys

\* Choose2FA without a userId renders again: this time the router performs
\* the navigate('/auth/login') of the render
Choose2FA_render ==
  /\ route = ChooseRoute /\ userId = None
  /\ Enter(LoginRoute, None, session)
  /\ toast' = NoToast
  /\ UNCHANGED <<store, now, session, authenticated>>

Choose2FA_handleUseCode ==
  /\ CodeOptionOffered /\ ~loading
  /\ Enter(VerifyRoute, userId, session)
  /\ toast' = NoToast
  /\ UNCHANGED <<store, now, session, authenticated>>

\* handleUsePasskey up to its first await
Choose2FA_handleUsePasskey(inIframe, supported) ==
  /\ PasskeyOptionOffered /\ ~loading
  /\ IF inIframe
     THEN /\ toast' = Failure("Passkeys cannot be used in preview mode. Please use 2FA code or deploy your app.", "")
          /\ UNCHANGED <<loading, pending>>
     ELSE IF ~supported
     THEN /\ toast' = Failure("Failed to authenticate with passkey: ",
                              "Passkeys are not supported on this browser")
          /\ UNCHANGED <<loading, pending>>
     ELSE /\ loading' = TRUE
          /\ \E x \in SelectPasskeys(session, userId) :
               pending' = pending \cup
                 {[Call EXCEPT !.op = "usePasskey.select", !.error = x.error,
                                !.rows = x.rows]}
          /\ toast' = NoToast
  /\ UNCHANGED <<store, now, session, authenticated, route, userId,
                 hasPasskeys, secret, twoFAEnabled, passkeys>>

\* navigator.credentials.get: what the platform ceremony ends with
GetOutcomes == {"credential", "null", "NotAllowedError"}

\* what handleUsePasskey does with the stored passkeys it got
UsePasskeySelected(c) ==
  IF c.error # NoError
  THEN [ceremony |-> FALSE,
        toast |-> Failure("Failed to authenticate with passkey: ", c.error)]
  ELSE IF c.rows = {}
  THEN [ceremony |-> FALSE,
        toast |-> Failure("No passkeys found. Please use 2FA code.", "")]
  ELSE [ceremony |-> TRUE, toast |-> NoToast]

Choose2FA_handleUsePasskey_selected(c) ==
  /\ route = ChooseRoute
  /\ c \in pending /\ c.op = "usePasskey.select"
  /\ LET d == UsePasskeySelected(c) IN
     /\ toast' = d.toast
     /\ IF d.ceremony
        THEN /\ \E o \in GetOutcomes :
                  pending' = (pending \ {c}) \cup
                    {[Call EXCEPT !.op = "usePasskey.get", !.outcome = o,
                                   !.rows = {[r EXCEPT !.credential_id =
                                                Atob(r.credential_id)] : r \in c.rows}]}
             /\ UNCHANGED loading
        ELSE /\ pending' = pending \ {c}
             /\ loading' = FALSE
  /\ UNCHANGED <<store, now, session, authenticated, route, userId,
                 hasPasskeys, secret, twoFAEnabled, passkeys>>

\* handleUsePasskey without its `if (!credential)` check
UsePasskeyGotNoNullCheck(c) ==
  IF c.outcome = "NotAllowedError"
  THEN [navigate |-> FALSE,
        toast |-> Failure("Passkey authentication was cancelled", "")]
  ELSE [navigate |-> TRUE, toast |-> Success("Passkey verified successfully!")]

\* what handleUsePasskey does with the ceremony's result
UsePasskeyGot(c) ==
  IF c.outcome = "credential"
  THEN [navigate |-> TRUE, toast |-> Success("Passkey verified successfully!")]
  ELSE IF c.outcome = "NotAllowedError"
  THEN [navigate |-> FALSE,
        toast |-> Failure("Passkey authentication was cancelled", "")]
  ELSE [navigate |-> FALSE,
        toast |-> Failure("Failed to authenticate with passkey: ",
                          "Failed to authenticate with passkey")]

Choose2FA_handleUsePasskey_got(c) ==
  /\ route = ChooseRoute
  /\ c \in pending /\ c.op = "usePasskey.get"
  /\ LET d == UsePasskeyGot(c) IN
     /\ toast' = d.toast
     /\ IF d.navigate
        THEN /\ authenticated' = TRUE
             /\ Enter(DashboardRoute, None, session)
        ELSE /\ pending' = pending \ {c}
             /\ loading' = FALSE
             /\ UNCHANGED <<authenticated, route, userId, hasPasskeys, secret,
                            twoFAEnabled, passkeys>>
  /\ UNCHANGED <<store, now, session>>

(* ------------------------------ Verify2FA ----------------------------- *)

\* handleVerify up to its first await
Verify2FA_handleVerify(tok) ==
  /\ route = VerifyRoute /\ ~loading
  /\ IF userId = None
     THEN /\ toast' = Failure("", "User ID not found")
          /\ UNCHANGED <<loading, pending>>
     ELSE /\ loading' = TRUE
          /\ \E x \in Select2FA(session, userId) :
               pending' = {[Call EXCEPT !.op = "verify.select", !.error = x.error,
                                         !.row2fa = x.row2fa, !.token = tok]}
          /\ toast' = NoToast
  /\ UNCHANGED <<store, now, session, authenticated, route, userId,
                 hasPasskeys, secret, twoFAEnabled, passkeys>>

\* handleVerify testing delta for undefined instead of null
VerifyResultNoNullCheck(c, t) ==
  IF c.error # NoError
  THEN [navigate |-> FALSE, toast |-> Failure("", c.error)]
  ELSE [navigate |-> TRUE, toast |-> Success("Verification successful!")]

\* handleVerify without its `if (error) throw error`
VerifyResultNoThrow(c, t) ==
  IF Validate(c.row2fa.secret, c.token, t) = NoMatch /\ c.error = NoError
  THEN [navigate |-> FALSE, toast |-> Failure("Invalid code. Please try again.", "")]
  ELSE [navigate |-> TRUE, toast |-> Success("Verification successful!")]

\* what handleVerify does with the stored secret it got, at period t
VerifyResult(c, t) ==
  IF c.error # NoError
  THEN [navigate |-> FALSE, toast |-> Failure("", c.error)]
  ELSE IF Validate(c.row2fa.secret, c.token, t) = NoMatch
  THEN [navigate |-> FALSE, toast |-> Failure("Invalid code. Please try again.", "")]
  ELSE [navigate |-> TRUE, toast |-> Success("Verification successful!")]

Verify2FA_handleVerify_selected(c) ==
  /\ route = VerifyRoute
  /\ c \in pending /\ c.op = "verify.select"
  /\ LET d == VerifyResult(c, now) IN
     /\ toast' = d.toast
     /\ IF d.navigate
        THEN /\ authenticated' = TRUE
             /\ Enter(DashboardRoute, None, session)
        ELSE /\ pending' = pending \ {c}
             /\ loading' = FALSE
             /\ UNCHANGED <<authenticated, route, userId, hasPasskeys, secret,
                            twoFAEnabled, passkeys>>
  /\ UNCHANGED <<store, now, session>>

(* ------------------------------ Setup2FA ------------------------------ *)

\* the write handleVerify issues for a confirmation code at period t: none
\* on a mismatch, else the insert as the backend executes it (or misses it)
SetupWrites(tok, t) ==
  IF Validate(secret, tok, t) = NoMatch THEN {}
  ELSE {Insert2FA(session, userId, secret), Unreached(user_2fa)}

\* handleVerify up to its first await
Setup2FA_handleVerify(tok) ==
  /\ route = SetupRoute /\ ~loading
  /\ IF SetupWrites(tok, now) = {}
     THEN /\ toast' = Failure("Invalid code. Please try again.", "")
          /\ UNCHANGED <<user_2fa, loading, pending>>
     ELSE /\ \E w \in SetupWrites(tok, now) :
               /\ user_2fa' = w.table
               /\ pending' = {[Call EXCEPT !.op = "setup.insert", !.error = w.error]}
          /\ loading' = TRUE
          /\ toast' = NoToast
  /\ UNCHANGED <<user_passkeys, nextId, now, session, authenticated, route,
                 userId, hasPasskeys, secret, twoFAEnabled, passkeys>>

\* handleVerify without its `if (error) throw error`
SetupResultNoThrow(c) ==
  [navigate |-> TRUE, toast |-> Success("2FA setup complete!")]

\* what handleVerify does once the insert has returned
SetupResult(c) ==
  IF c.error # NoError
  THEN [navigate |-> FALSE, toast |-> Failure("", c.error)]
  ELSE [navigate |-> TRUE, toast |-> Success("2FA setup complete!")]

Setup2FA_handleVerify_inserted(c) ==
  /\ route = SetupRoute
  /\ c \in pending /\ c.op = "setup.insert"
  /\ LET d == SetupResult(c) IN
     /\ toast' = d.toast
     /\ IF d.navigate
        THEN /\ authenticated' = TRUE
             /\ Enter(DashboardRoute, None, session)
        ELSE /\ pending' = pending \ {c}
             /\ loading' = FALSE
             /\ UNCHANGED <<authenticated, route, userId, hasPasskeys, secret,
                            twoFAEnabled, passkeys>>
  /\ UNCHANGED <<store, now, session>>

(* ------------------------------ Settings ------------------------------ *)

\* loadSettings after its first await: the 2FA flag, then the passkey query
Settings_loadSettings_2fa(c) ==
  /\ route = SettingsRoute
  /\ c \in pending /\ c.op = "load.2fa"
  /\ twoFAEnabled' = IF c.row2fa.present THEN c.row2fa.enabled ELSE twoFAEnabled
  /\ \E x \in SelectPasskeys(session, session) :
       pending' = (pending \ {c}) \cup
         {[Call EXCEPT !.op = "load.passkeys", !.error = x.error, !.rows = x.rows]}
  /\ toast' = NoToast
  /\ UNCHANGED <<store, now, session, authenticated, route, userId, loading,
                 hasPasskeys, secret, passkeys>>

\* loadSettings after its second await
Settings_loadSettings_passkeys(c) ==
  /\ route = SettingsRoute
  /\ c \in pending /\ c.op = "load.passkeys"
  /\ passkeys' = IF c.error = NoError THEN c.rows ELSE passkeys
  /\ pending' = pending \ {c}
  /\ toast' = NoToast
  /\ UNCHANGED <<store, now, session, authenticated, route, userId, loading,
                 hasPasskeys, secret, twoFAEnabled>>

\* toggleTwoFA up to its await
Settings_toggleTwoFA ==
  /\ route = SettingsRoute /\ ~loading
  /\ loading' = TRUE
  /\ \E w \in {Update2FA(session, session, ~twoFAEnabled), Unreached(user_2fa)} :
       /\ user_2fa' = w.table
       /\ pending' = pending \cup
            {[Call EXCEPT !.op = "toggle.update", !.error = w.error,
                           !.flag = ~twoFAEnabled]}
  /\ toast' = NoToast
  /\ UNCHANGED <<user_passkeys, nextId, now, session, authenticated, route,
                 userId, hasPasskeys, secret, twoFAEnabled, passkeys>>

\* what toggleTwoFA does once the update has returned
ToggleResult(c) ==
  IF c.error # NoError
  THEN [set |-> FALSE, toast |-> Failure("Failed to update 2FA settings", "")]
  ELSE [set |-> TRUE,
        toast |-> Success(IF c.flag THEN "2FA enabled" ELSE "2FA disabled")]

Settings_toggleTwoFA_updated(c) ==
  /\ route = SettingsRoute
  /\ c \in pending /\ c.op = "toggle.update"
  /\ LET d == ToggleResult(c) IN
     /\ toast' = d.toast
     /\ twoFAEnabled' = IF d.set THEN c.flag ELSE twoFAEnabled
  /\ loading' = FALSE
  /\ pending' = pending \ {c}
  /\ UNCHANGED <<store, now, session, authenticated, route, userId,
                 hasPasskeys, secret, passkeys>>

\* navigator.credentials.create: what the platform ceremony ends with
CreateOutcomes == {"credential", "null", "NotAllowedError", "NotSupportedError"}

\* addPasskey up to its first await
Settings_addPasskey(label) ==
  /\ route = SettingsRoute /\ ~loading
  /\ nextId <= MaxRows /\ Cardinality(Loads(pending)) <= MaxLoads
  /\ IF Trim(label) = <<>>
     THEN /\ toast' = Failure("Please enter a device name", "")
          /\ UNCHANGED <<loading, pending>>
     ELSE /\ loading' = TRUE
          /\ \E o \in CreateOutcomes :
             \E raw \in (IF o = "credential" THEN RawIds ELSE {None}) :
               pending' = pending \cup
                 {[Call EXCEPT !.op = "add.create", !.label = label,
                                !.outcome = o, !.raw = raw]}
          /\ toast' = NoToast
  /\ UNCHANGED <<store, now, session, authenticated, route, userId,
                 hasPasskeys, secret, twoFAEnabled, passkeys>>

\* the catch block of addPasskey without its tests of error.name
CreateFailureNoNames(c) == Failure("Failed to add passkey: ", c.outcome)

\* what addPasskey reports when the ceremony gave no credential
CreateFailure(c) ==
  IF c.outcome = "NotAllowedError"
  THEN Failure("Passkey registration was cancelled", "")
  ELSE IF c.outcome = "NotSupportedError"
  THEN Failure("Passkeys are not supported on this device", "")
  ELSE Failure("Failed to add passkey: ", "Failed to create credential")

\* addPasskey after the ceremony: the insert, or the catch block
Settings_addPasskey_created(c) ==
  /\ route = SettingsRoute
  /\ c \in pending /\ c.op = "add.create"
  /\ IF c.outcome = "credential"
     THEN /\ nextId <= MaxRows
          /\ \E w \in {InsertPasskey(session, session, c.raw, c.label),
                       Unreached(user_passkeys)} :
               /\ user_passkeys' = w.table
               /\ nextId' = IF w.error = NoError THEN nextId + 1 ELSE nextId
               /\ pending' = (pending \ {c}) \cup
                    {[Call EXCEPT !.op = "add.insert", !.error = w.error]}
          /\ toast' = NoToast
          /\ UNCHANGED loading
     ELSE /\ toast' = CreateFailure(c)
          /\ loading' = FALSE
          /\ pending' = pending \ {c}
          /\ UNCHANGED <<user_passkeys, nextId>>
  /\ UNCHANGED <<user_2fa, now, session, authenticated, route, userId,
                 hasPasskeys, secret, twoFAEnabled, passkeys>>

\* what addPasskey does once the insert has returned
AddResult(c) ==
  IF c.error # NoError
  THEN [reload |-> FALSE, toast |-> Failure("Failed to add passkey: ", c.error)]
  ELSE [reload |-> TRUE, toast |-> Success("Passkey added successfully")]

Settings_addPasskey_inserted(c) ==
  /\ route = SettingsRoute
  /\ c \in pending /\ c.op = "add.insert"
  /\ LET d == AddResult(c) IN
     /\ toast' = d.toast
     /\ IF d.reload
        THEN \E l \in IssueLoadSettings(session) :
               pending' = (pending \ {c}) \cup {l}
        ELSE pending' = pending \ {c}
  /\ loading' = FALSE
  /\ UNCHANGED <<store, now, session, authenticated, route, userId,
                 hasPasskeys, secret, twoFAEnabled, passkeys>>

\* removePasskey(passkey.id) of a listed passkey, up to its await
Settings_removePasskey(id) ==
  /\ route = SettingsRoute /\ ~loading
  /\ Cardinality(Loads(pending)) <= MaxLoads
  /\ \E r \in passkeys : r.id = id
  /\ loading' = TRUE
  /\ \E w \in {DeletePasskey(session, id), Unreached(user_passkeys)} :
       /\ user_passkeys' = w.table
       /\ pending' = pending \cup
            {[Call EXCEPT !.op = "remove.delete", !.error = w.error]}
  /\ toast' = NoToast
  /\ UNCHANGED <<user_2fa, nextId, now, session, authenticated, route, userId,
                 hasPasskeys, secret, twoFAEnabled, passkeys>>

\* what removePasskey does once the delete has returned
RemoveResult(c) ==
  IF c.error # NoError
  THEN [reload |-> FALSE, toast |-> Failure("Failed to remove passkey", "")]
  ELSE [reload |-> TRUE, toast |-> Success("Passkey removed")]

Settings_removePasskey_deleted(c) ==
  /\ route = SettingsRoute
  /\ c \in pending /\ c.op = "remove.delete"
  /\ LET d == RemoveResult(c) IN
     /\ toast' = d.toast
     /\ IF d.reload
        THEN \E l \in IssueLoadSettings(session) :
               pending' = (pending \ {c}) \cup {l}
        ELSE pending' = pending \ {c}
  /\ loading' = FALSE
  /\ UNCHANGED <<store, now, session, authenticated, route, userId,
                 hasPasskeys, secret, twoFAEnabled, passkeys>>

\* onClick={() => navigate('/dashboard')}
Settings_back ==
  /\ route = SettingsRoute
  /\ Enter(DashboardRoute, None, session)
  /\ toast' = NoToast
  /\ UNCHANGED <<store, now, session, authenticated>>

(* --------------- the same pages in other visitors' sessions ----------- *)

\* Setup2FA's insert by a session of account a
Other_setup2FA(a, s) ==
  /\ user_2fa' = Insert2FA(a, a, s).table
  /\ toast' = NoToast
  /\ UNCHANGED <<user_passkeys, nextId, now, session, authenticated, route,
                 userId, loading, hasPasskeys, secret, twoFAEnabled, passkeys,
                 pending>>

\* Settings.toggleTwoFA's update by a session of account a
Other_toggleTwoFA(a, e) ==
  /\ user_2fa' = Update2FA(a, a, e).table
  /\ toast' = NoToast
  /\ UNCHANGED <<user_passkeys, nextId, now, session, authenticated, route,
                 userId, loading, hasPasskeys, secret, twoFAEnabled, passkeys,
                 pending>>

\* Settings.addPasskey's insert by a session of account a
Other_addPasskey(a, raw, label) ==
  /\ nextId <= MaxRows
  /\ Trim(label) # <<>>
  /\ LET w == InsertPasskey(a, a, raw, label) IN
     /\ user_passkeys' = w.table
     /\ nextId' = IF w.error = NoError THEN nextId + 1 ELSE nextId
  /\ toast' = NoToast
  /\ UNCHANGED <<user_2fa, now, session, authenticated, route, userId, loading,
                 hasPasskeys, secret, twoFAEnabled, passkeys, pending>>

\* Settings.removePasskey's delete, for any row id, by a session of account a
Other_removePasskey(a, id) ==
  /\ user_passkeys' = DeletePasskey(a, id).table
  /\ toast' = NoToast
  /\ UNCHANGED <<user_2fa, nextId, now, session, authenticated, route, userId,
                 loading, hasPasskeys, secret, twoFAEnabled, passkeys, pending>>

(* --------------------------- specification ---------------------------- *)

\* the visitor's steps on Login, Signup and Dashboard
Entry ==
  \/ \E a \in Accounts : Login_success(a)
  \/ Login_failure
  \/ \E a \in Accounts : Signup_success(a)
  \/ Dashboard_signOut

\* the visitor's steps on Choose2FA, Verify2FA and Setup2FA
AuthPages ==
  \/ \E c \in pending : Choose2FA_checkPasskeys(c)
  \/ Choose2FA_handleUseCode
  \/ \E i \in BOOLEAN, s \in BOOLEAN : Choose2FA_handleUsePasskey(i, s)
  \/ \E c \in pending : Choose2FA_handleUsePasskey_selected(c)
  \/ \E c \in pending : Choose2FA_handleUsePasskey_got(c)
  \/ \E tok \in Tokens : Verify2FA_handleVerify(tok)
  \/ \E c \in pending : Verify2FA_handleVerify_selected(c)
  \/ \E tok \in Tokens : Setup2FA_handleVerify(tok)
  \/ \E c \in pending : Setup2FA_handleVerify_inserted(c)

\* the visitor's steps on Settings
SettingsPage ==
  \/ Dashboard_openSettings
  \/ \E c \in pending : Settings_loadSettings_2fa(c)
  \/ \E c \in pending : Settings_loadSettings_passkeys(c)
  \/ Settings_toggleTwoFA
  \/ \E c \in pending : Settings_toggleTwoFA_updated(c)
  \/ \E l \in Labels : Settings_addPasskey(l)
  \/ \E c \in pending : Settings_addPasskey_created(c)
  \/ \E c \in pending : Settings_addPasskey_inserted(c)
  \/ \E id \in 1..MaxRows : Settings_removePasskey(id)
  \/ \E c \in pending : Settings_removePasskey_deleted(c)
  \/ Settings_back

\* the steps of other sessions on the passkeys
OtherPasskeys ==
  \/ \E a \in Accounts, raw \in RawIds, l \in Labels : Other_addPasskey(a, raw, l)
  \/ \E a \in Accounts, id \in 1..MaxRows : Other_removePasskey(a, id)

\* the steps of other sessions
Others ==
  \/ \E a \in Accounts, s \in Secrets : Other_setup2FA(a, s)
  \/ \E a \in Accounts, e \in BOOLEAN : Other_toggleTwoFA(a, e)
  \/ OtherPasskeys

Next ==
  \/ Tick
  \/ \E r \in Routes : GoTo(r)
  \/ Choose2FA_render
  \/ Entry
  \/ AuthPages
  \/ SettingsPage
  \/ Others

Spec == Init /\ [][Next]_vars

\* the login flow among other sessions: the visitor's own Settings page is
\* left out, its writes being those of the other sessions
NextAuth ==
  \/ Tick
  \/ \E r \in Routes \ {SettingsRoute} : GoTo(r)
  \/ Choose2FA_render
  \/ Entry
  \/ AuthPages
  \/ Others

SpecAuth == Init /\ [][NextAuth]_vars

\* the Settings page among other sessions: the visitor's own 2FA pages are
\* left out, their write being Other_setup2FA, and so are the 2FA rows of
\* the accounts the visitor is not signed in to, which no query of the page
\* can see
NextSettings ==
  \/ \E r \in {DashboardRoute, SettingsRoute} : GoTo(r)
  \/ Entry
  \/ SettingsPage
  \/ \E s \in Secrets : Other_setup2FA(Visitor, s)
  \/ \E e \in BOOLEAN : Other_toggleTwoFA(Visitor, e)
  \/ OtherPasskeys

SpecSettings == Init /\ [][NextSettings]_vars

\* the visitor alone
NextSolo ==
  \/ Tick
  \/ \E r \in Routes : GoTo(r)
  \/ Choose2FA_render
  \/ Entry
  \/ AuthPages
  \/ SettingsPage

SpecSolo == Init /\ [][NextSolo]_vars

\* the visitor alone, moving by the application's own navigation only
NextFlow ==
  \/ Tick
  \/ Entry
  \/ AuthPages
  \/ SettingsPage

SpecFlow == Init /\ [][NextFlow]_vars

\* the visitor on Verify2FA (the account's secret stored) or on Setup2FA (a
\* secret just generated), at any period of the clock
InitTotp ==
  /\ route \in {VerifyRoute, SetupRoute}
  /\ now \in 0..MaxPeriod
  /\ \E s \in Secrets :
       /\ user_2fa = IF route = VerifyRoute THEN {Row2FA(Visitor, s, TRUE)} ELSE {}
       /\ secret = IF route = SetupRoute THEN s ELSE None
  /\ user_passkeys = {}
  /\ nextId = 1
  /\ session = Visitor
  /\ authenticated = FALSE
  /\ userId = Visitor
  /\ loading = FALSE
  /\ hasPasskeys = FALSE
  /\ twoFAEnabled = TRUE
  /\ passkeys = {}
  /\ pending = {}
  /\ toast = NoToast

\* the codes the visitor's authenticator shows for the account's secret
Codes ==
  {GenerateAt(s, t) : s \in ({secret} \cup {r.secret : r \in user_2fa}) \cap Secrets,
                      t \in Instants}

\* the two pages that validate, fed with the authenticator's codes
NextTotp ==
  \/ \E tok \in Codes : Verify2FA_handleVerify(tok)
  \/ \E c \in pending : Verify2FA_handleVerify_selected(c)
  \/ \E tok \in Codes : Setup2FA_handleVerify(tok)
  \/ \E c \in pending : Setup2FA_handleVerify_inserted(c)

SpecTotp == InitTotp /\ [][NextTotp]_vars

(* ------------------------------- claims ------------------------------- *)

InvalidCode == Failure("Invalid code. Please try again.", "")

\* The original statement of C1: the protected routes /dashboard and
\* /dashboard/settings are shown only to a visitor whose flow has reached
\* Authenticated.
C1_ProtectedOnlyWhenAuthenticated ==
  route \in ProtectedRoutes => authenticated

\* C2: a submitted code that matches the secret stored for the session's
\* account moves Verify2FA to /dashboard; one that does not match leaves it
\* on the page with InvalidCode; no step of handleVerify navigates without a
\* match, and the secret validated against is the one stored for userId.
C2_VerifyNavigatesIffMatch ==
  /\ [](\A c \in pending :
          c.op = "verify.select" /\ c.error = NoError
            => \E r \in user_2fa : r.user_id = userId /\ r.secret = c.row2fa.secret)
  /\ [][/\ \A tok \in Tokens :
             Verify2FA_handleVerify(tok) =>
               route' = VerifyRoute /\ authenticated' = authenticated
        /\ \A c \in pending :
             Verify2FA_handleVerify_selected(c) =>
               IF c.error = NoError /\ Validate(c.row2fa.secret, c.token, now) # NoMatch
               THEN route' = DashboardRoute /\ authenticated'
               ELSE /\ route' = VerifyRoute /\ userId' = userId
                    /\ authenticated' = authenticated
                    /\ (c.error = NoError => toast' = InvalidCode)]_vars

C2_Witness ==
  /\ route = DashboardRoute /\ authenticated
  /\ toast = Success("Verification successful!")

\* C3: the passkey step reaches Authenticated only when the assertion
\* ceremony returned a credential; with no stored passkeys (found before any
\* ceremony is started), without WebAuthn, or on a cancelled ceremony the
\* flow stays on Choose2FA with the reason and does not navigate.
C3_PasskeyOnlyOnAssertion ==
  /\ [](\A c \in pending : c.op = "usePasskey.get" => c.rows # {})
  /\ [][/\ \A i \in BOOLEAN, s \in BOOLEAN :
             Choose2FA_handleUsePasskey(i, s) =>
               /\ route' = ChooseRoute /\ authenticated' = authenticated
               /\ (~i /\ ~s =>
                     /\ toast' = Failure("Failed to authenticate with passkey: ",
                                         "Passkeys are not supported on this browser")
                     /\ pending' = pending /\ ~loading')
        /\ \A c \in pending :
             Choose2FA_handleUsePasskey_selected(c) =>
               /\ route' = ChooseRoute /\ authenticated' = authenticated
               /\ (c.error = NoError /\ c.rows = {} =>
                     /\ toast' = Failure("No passkeys found. Please use 2FA code.", "")
                     /\ \A d \in pending' : d.op # "usePasskey.get"
                     /\ ~loading')
        /\ \A c \in pending :
             Choose2FA_handleUsePasskey_got(c) =>
               IF c.outcome = "credential"
               THEN route' = DashboardRoute /\ authenticated'
               ELSE /\ route' = ChooseRoute /\ authenticated' = authenticated
                    /\ ~loading'
                    /\ (c.outcome = "NotAllowedError" =>
                          toast' = Failure("Passkey authentication was cancelled", ""))
        /\ (route = ChooseRoute /\ authenticated' /\ ~authenticated =>
              \E c \in pending : c.op = "usePasskey.get" /\ c.outcome = "credential")]_vars

C3_Witness ==
  /\ route = ChooseRoute /\ ~loading
  /\ toast = Failure("No passkeys found. Please use 2FA code.", "")

\* The original statement of C4: once the passkey query of Choose2FA has
\* completed, the passkey option is offered if and only if the account
\* currently has at least one stored passkey.
C4_OfferedIffHasPasskey ==
  (route = ChooseRoute /\ \A c \in pending : c.op # "checkPasskeys")
    => (PasskeyOptionOffered <=> \E r \in user_passkeys : r.user_id = userId)

\* C5: in Setup2FA a confirmation code that does not match writes nothing
\* and stays; a matching one inserts exactly (userId, generated secret,
\* enabled) and the flow moves to /dashboard only once the insert has
\* succeeded, the row being stored; a failed insert stays without navigating.
C5_SetupPersistsThenNavigates ==
  [][/\ \A tok \in Tokens :
          Setup2FA_handleVerify(tok) =>
            /\ route' = SetupRoute /\ authenticated' = authenticated
            /\ IF Validate(secret, tok, now) = NoMatch
               THEN user_2fa' = user_2fa /\ pending' = pending /\ toast' = InvalidCode
               ELSE /\ user_2fa' \ user_2fa \subseteq {Row2FA(userId, secret, TRUE)}
                    /\ \A c \in pending' :
                         c.error = NoError => Row2FA(userId, secret, TRUE) \in user_2fa'
     /\ \A c \in pending :
          Setup2FA_handleVerify_inserted(c) =>
            /\ user_2fa' = user_2fa
            /\ IF c.error = NoError
               THEN /\ route' = DashboardRoute /\ authenticated'
                    /\ \E r \in user_2fa : r.user_id = userId /\ r.secret = secret
               ELSE /\ route' = SetupRoute /\ authenticated' = authenticated
                    /\ secret' = secret /\ userId' = userId]_vars

C5_Witness ==
  /\ route = DashboardRoute /\ authenticated
  /\ toast = Success("2FA setup complete!")
  /\ \E r \in user_2fa : r.user_id = session /\ r.enabled

\* C6: no account ever has two user_2fa rows, whatever setups and toggles
\* interleave; a setup confirmation for an account that already has a row
\* changes nothing in the table and ends in a store error.
C6_AtMostOneSecretPerAccount ==
  /\ [](\A r1 \in user_2fa, r2 \in user_2fa : r1.user_id = r2.user_id => r1 = r2)
  /\ [][/\ \A tok \in Tokens :
             (/\ Setup2FA_handleVerify(tok)
              /\ \E r \in user_2fa : r.user_id = userId) =>
               /\ user_2fa' = user_2fa
               /\ \A c \in pending' : c.error # NoError
        /\ \A c \in pending :
             (Setup2FA_handleVerify_inserted(c) /\ c.error # NoError) =>
               /\ toast' = Failure("", c.error)
               /\ route' = SetupRoute]_vars

C6_Witness ==
  /\ route = SetupRoute
  /\ toast = Failure("", UniqueError)
  /\ \E r \in user_2fa : r.user_id = userId /\ r.secret # secret

OwnedBy(table, a) == {r \in table : r.user_id = a}

\* C7: when the account has no stored passkey and addPasskey's insert
\* succeeds, every successful listing for the account then returns exactly
\* one row, owned by the account, whose device_name is the label submitted.
C7_FirstPasskeyIsListed ==
  [][\A c \in pending :
       (/\ Settings_addPasskey_created(c)
        /\ c.outcome = "credential"
        /\ OwnedBy(user_passkeys, session) = {}
        /\ \E d \in pending' : d.op = "add.insert" /\ d.error = NoError) =>
         \A x \in SelectPasskeys(session, session)' :
           x.error = NoError =>
             /\ Cardinality(x.rows) = 1
             /\ \A r \in x.rows : r.user_id = session /\ r.device_name = c.label]_vars

C7_Witness ==
  /\ route = SettingsRoute
  /\ \E d \in pending : d.op = "add.insert" /\ d.error = NoError
  /\ nextId = 2
  /\ \E r \in user_passkeys :
       user_passkeys = {r} /\ r.user_id = session /\ r.device_name = <<" ", "b">>

\* C8: a delete by row id leaves the rows of every account but the
\* deleting one unchanged, for any id; once it has succeeded no listing of
\* the deleting account holds a row of that id, and a row id that is gone
\* never comes back.
C8_DeleteTouchesOwnRowOnly ==
  [][/\ \A id \in 1..MaxRows :
          Settings_removePasskey(id) =>
            /\ \A a \in Accounts \ {session} :
                 OwnedBy(user_passkeys', a) = OwnedBy(user_passkeys, a)
            /\ user_passkeys' \subseteq user_passkeys
            /\ (\E d \in pending' : d.op = "remove.delete" /\ d.error = NoError) =>
                 \A x \in SelectPasskeys(session, session)' :
                   \A r \in x.rows : r.id # id
     /\ \A b \in Accounts, id \in 1..MaxRows :
          Other_removePasskey(b, id) =>
            /\ \A a \in Accounts \ {b} :
                 OwnedBy(user_passkeys', a) = OwnedBy(user_passkeys, a)
            /\ \A r \in OwnedBy(user_passkeys', b) : r.id # id
     /\ \A id \in 1..MaxRows :
          (id < nextId /\ \A r \in user_passkeys : r.id # id) =>
            \A r \in user_passkeys' : r.id # id]_vars

C8_Witness ==
  /\ route = SettingsRoute
  /\ \E d \in pending : d.op = "remove.delete" /\ d.error = NoError
  /\ nextId = 3
  /\ \E r \in user_passkeys : user_passkeys = {r} /\ r.user_id # session

\* the calls a handler holds the loading flag for
BusyOps ==
  {"usePasskey.select", "usePasskey.get", "verify.select", "setup.insert",
   "toggle.update", "add.create", "add.insert", "remove.delete"}

\* a handler resumes with the result of call c
Resumes(c) ==
  \/ Choose2FA_handleUsePasskey_selected(c)
  \/ Choose2FA_handleUsePasskey_got(c)
  \/ Verify2FA_handleVerify_selected(c)
  \/ Setup2FA_handleVerify_inserted(c)
  \/ Settings_toggleTwoFA_updated(c)
  \/ Settings_addPasskey_created(c)
  \/ Settings_addPasskey_inserted(c)
  \/ Settings_removePasskey_deleted(c)

CallFailed(c) ==
  c.error # NoError \/ c.outcome \in {"null", "NotAllowedError", "NotSupportedError"}

\* C9: the loading flag is set only while a call of the operation is in
\* flight; when a call returns, the handler either issues the next call of
\* its chain, leaves the page, or clears the flag; and when the call failed
\* it clears the flag, reports an error and leaves route, account id and
\* flow state as they were.
C9_LoadingClearedOnReturn ==
  /\ [](loading => \E c \in pending : c.op \in BusyOps)
  /\ [][\A c \in pending :
          Resumes(c) =>
            /\ (route' = route /\ loading') =>
                 \E d \in pending' \ pending : d.op \in BusyOps
            /\ CallFailed(c) =>
                 /\ ~loading' /\ toast'.kind = "error"
                 /\ route' = route /\ userId' = userId
                 /\ authenticated' = authenticated]_vars

C9_Witness ==
  /\ route = VerifyRoute /\ userId = Visitor /\ ~loading
  /\ toast = Failure("", NetworkError)

\* a handler resumes with the response of store call c
StoreReturns(c) ==
  \/ Choose2FA_checkPasskeys(c)
  \/ Choose2FA_handleUsePasskey_selected(c)
  \/ Verify2FA_handleVerify_selected(c)
  \/ Setup2FA_handleVerify_inserted(c)
  \/ Settings_loadSettings_2fa(c)
  \/ Settings_loadSettings_passkeys(c)
  \/ Settings_toggleTwoFA_updated(c)
  \/ Settings_addPasskey_inserted(c)
  \/ Settings_removePasskey_deleted(c)

\* The original statement of C10: every failure of a store operation is
\* surfaced as an error notification that carries the underlying message.
C10_StoreErrorsSurfaced ==
  [][\A c \in pending :
       (StoreReturns(c) /\ c.error # NoError) =>
         toast'.kind = "error" /\ toast'.detail = c.error]_vars

\* the code of instant t falls in the window of an instant of counter v
InWindow(t, v) == Counter(t) - v <= window /\ v - Counter(t) <= window

\* C11: for every secret and every two instants, validate accepts the code
\* generated at t, at instant v, when the period of t is the period of v or
\* one next to it, returning their distance, and rejects it for every
\* other period; Verify2FA and Setup2FA accept and reject accordingly.
C11_WindowOfOnePeriod ==
  /\ [](\A s \in Secrets, t \in Instants, v \in Instants :
          ValidateAt(s, GenerateAt(s, t), v) =
            IF InWindow(t, Counter(v)) THEN Counter(t) - Counter(v) ELSE NoMatch)
  /\ [][/\ \A c \in pending, t \in Instants :
             (/\ Verify2FA_handleVerify_selected(c)
              /\ c.error = NoError
              /\ c.token = GenerateAt(c.row2fa.secret, t)) =>
               IF InWindow(t, now)
               THEN route' = DashboardRoute
               ELSE route' = VerifyRoute /\ toast' = InvalidCode
        /\ \A tok \in Codes, t \in Instants :
             (Setup2FA_handleVerify(tok) /\ tok = GenerateAt(secret, t)) =>
               IF InWindow(t, now)
               THEN \E c \in pending' : c.op = "setup.insert"
               ELSE pending' = pending /\ toast' = InvalidCode]_vars

\* a genuine code of the stored secret was rejected: it was generated two
\* periods or more from the period of validation
C11_Witness ==
  /\ route = VerifyRoute /\ toast = InvalidCode
  /\ \E r \in user_2fa : r.user_id = userId /\ r.secret \in Secrets
  /\ \E t \in Instants : ~InWindow(t, now)

\* The original statement of C12: on every page at most one asynchronous
\* operation chain (store call or platform ceremony) started by the page
\* is in flight; each call awaited in `pending` is the current call of
\* one chain.
C12_AtMostOneChainInFlight == Cardinality(pending) <= 1

Cancelled == Failure("Passkey registration was cancelled", "")
Unsupported == Failure("Passkeys are not supported on this device", "")
StoreError(message) == Failure("Failed to add passkey: ", message)

StoreCallsInFlight == {c \in pending : c.op # "add.create"}

\* The original statement of C14: on Settings, whenever no store call
\* issued by the page is in flight, the displayed passkey list is the set
\* of passkey rows stored for the signed-in account.
C14_ListMatchesStore ==
  (route = SettingsRoute /\ StoreCallsInFlight = {})
    => passkeys = OwnedBy(user_passkeys, session)

\* The original statement of C15: on Settings, once loadSettings has
\* completed and no toggle is in flight, the displayed 2FA flag is the
\* enabled flag of the stored row of the account, and is not 'Enabled' for
\* an account without a stored row.
C15_FlagMatchesStore ==
  (/\ route = SettingsRoute
   /\ Loads(pending) = {}
   /\ \A c \in pending : c.op # "toggle.update")
    => IF OwnedBy(user_2fa, session) = {}
       THEN ~twoFAEnabled
       ELSE \A r \in OwnedBy(user_2fa, session) : twoFAEnabled = r.enabled

\* a verification page is shown without an account id
NoAccountId == route \in {ChooseRoute, VerifyRoute, SetupRoute} /\ userId = None

\* The original statement of C16: Choose2FA and Setup2FA opened without an
\* account id send the visitor to /auth/login; a verification page without
\* an account id has no store call and no ceremony in flight and none of
\* its handlers but Verify2FA's runs; Verify2FA's reports an error, reads
\* and writes nothing and stays.
C16_NoAccountIdNoEffect ==
  /\ [](route \in {ChooseRoute, SetupRoute} => userId # None)
  /\ [](NoAccountId => pending = {} /\ ~loading)
  /\ [][/\ \A tok \in Tokens :
             (Verify2FA_handleVerify(tok) /\ userId = None) =>
               /\ toast' = Failure("", "User ID not found")
               /\ route' = VerifyRoute /\ authenticated' = authenticated
               /\ pending' = {} /\ ~loading'
               /\ UNCHANGED store
        /\ NoAccountId =>
             /\ ~Choose2FA_handleUseCode
             /\ \A i \in BOOLEAN, w \in BOOLEAN : ~Choose2FA_handleUsePasskey(i, w)
             /\ \A tok \in Tokens : ~Setup2FA_handleVerify(tok)]_vars

====
